---- MODULE Spec2Model ----
(***************************************************************************)
(* Abeleser: rule-based extraction of vehicle / tire data from KBA text,   *)
(* validation of tire combinations and the learned code glossary           *)
(* (PDFTemplateManager).                                                   *)
(*                                                                         *)
(* Text is modelled character by character: a string is a sequence of      *)
(* one-character strings, a document is a sequence of lines (the result    *)
(* of text.split('\n')).  Every regular expression of the source is an     *)
(* operator that computes the match the Python `re` engine computes.       *)
(***************************************************************************)
EXTENDS Integers, Sequences, FiniteSets, TLC

VARIABLES
    codes_file,          \* content of templates/codes_database.json
    writable,            \* whether codes_database.json can be opened for writing
    template_dir,        \* the *.pdf files of templates/ (names of Pdfs), by directory index
    main_db,             \* main.template_manager.codes_database
    da_db,               \* document_analyzer.template_manager.codes_database
    stats,               \* learn_from_pdf: stats of the last successful call
    last_op,             \* the last operation on main.template_manager
    relearned,           \* the last call of the UI was a learn_from_pdf repeating the call before it
    tire_info,           \* argument of the last validate_tire_combination call
    result,              \* its return value
    lookups,             \* codes it passed to get_code_description
    lines,               \* analyze_vehicle_data: text.split('\n')
    pos,                 \* index of the next line of the for loop
    vehicles,            \* analyze_vehicle_data: vehicles
    current_vehicle,     \* <<>> for None, <<v>> for an open vehicle
    current_code_block,  \* None or the pending code
    code_description,    \* the pending description lines
    pc,                  \* "idle", "scan" (inside the for loop), "done" (analyze_vehicle_data
                         \* returned), "returned" / "raised" (analyze_vehicle_tire_combination)
    results,             \* analyze_vehicle_tire_combination: results
    save_pc,             \* save_codes_database of main.py's manager: "idle", "open", "dump"
    store_before,        \* the store as it was when that save was called
    other_db,            \* codes_database of the manager of another session of main.py
    load_bit             \* flips on every load_codes_database of that manager

glossary_vars == <<codes_file, writable, template_dir, main_db, da_db, stats, last_op, relearned>>
validator_vars == <<tire_info, result, lookups>>
parser_vars == <<lines, pos, vehicles, current_vehicle, current_code_block, code_description, pc,
                 results>>
store_vars == <<save_pc, store_before, other_db, load_bit>>
vars == <<codes_file, writable, template_dir, main_db, da_db, stats, last_op, relearned,
          tire_info, result, lookups,
          lines, pos, vehicles, current_vehicle, current_code_block, code_description, pc,
          results, save_pc, store_before, other_db, load_bit>>

----------------------------------------------------------------------------
(* Characters and strings *)

Digit == {"0","1","2","3","4","5","6","7","8","9"}
Upper == {"A","B","C","D","E","F","G","H","I","J","K","L","M",
          "N","O","P","Q","R","S","T","U","V","W","X","Y","Z"}
Lower == {"a","b","c","d","e","f","g","h","i","j","k","l","m",
          "n","o","p","q","r","s","t","u","v","w","x","y","z"}
Space == {" ", "\t"}
Alnum == Upper \cup Lower \cup Digit

\* Python's None, as a value comparable with strings (no string has a
\* character of more than one letter).
None == <<"None">>

\* s[i..j), the slice s[i-1:j-1] of Python
Sub(s, i, j) == SubSeq(s, i, j - 1)

\* the literal w stands in s at index i
HasAt(s, i, w) ==
    /\ i >= 1 /\ i + Len(w) - 1 <= Len(s)
    /\ \A k \in 1..Len(w) : s[i + k - 1] = w[k]

RECURSIVE RunEnd(_, _, _)
\* the index after the longest run of characters of C that starts at i
\* (a greedy C* at i)
RunEnd(s, i, C) ==
    IF i <= Len(s) /\ s[i] \in C THEN RunEnd(s, i + 1, C) ELSE i

RECURSIVE RunEndNot(_, _, _)
\* the same for a negated class [^...]
RunEndNot(s, i, C) ==
    IF i <= Len(s) /\ s[i] \notin C THEN RunEndNot(s, i + 1, C) ELSE i

RECURSIVE LStrip(_)
LStrip(s) == IF s # <<>> /\ Head(s) \in Space THEN LStrip(Tail(s)) ELSE s

RECURSIVE RStrip(_)
RStrip(s) ==
    IF s # <<>> /\ s[Len(s)] \in Space THEN RStrip(SubSeq(s, 1, Len(s) - 1)) ELSE s

\* str.strip()
Strip(s) == RStrip(LStrip(s))

DigitVal(c) ==
    CASE c = "0" -> 0 [] c = "1" -> 1 [] c = "2" -> 2 [] c = "3" -> 3
      [] c = "4" -> 4 [] c = "5" -> 5 [] c = "6" -> 6 [] c = "7" -> 7
      [] c = "8" -> 8 [] c = "9" -> 9

RECURSIVE ToInt(_)
\* int(s) of a string of digits
ToInt(s) ==
    IF s = <<>> THEN 0
    ELSE 10 * ToInt(SubSeq(s, 1, Len(s) - 1)) + DigitVal(s[Len(s)])

RECURSIVE Join(_)
\* ' '.join(parts)
Join(parts) ==
    IF parts = <<>> THEN <<>>
    ELSE IF Len(parts) = 1 THEN parts[1]
    ELSE parts[1] \o <<" ">> \o Join(Tail(parts))

RECURSIVE Remove(_, _)
\* s.replace(c, '')
Remove(s, c) ==
    IF s = <<>> THEN <<>>
    ELSE IF Head(s) = c THEN Remove(Tail(s), c)
    ELSE <<Head(s)>> \o Remove(Tail(s), c)

Range(s) == {s[k] : k \in 1..Len(s)}

----------------------------------------------------------------------------
(* Python dicts, in insertion order: a sequence of [k, v] *)

DictKeys(d) == {d[n].k : n \in 1..Len(d)}

\* d.get(key): None when absent
DictGet(d, key) ==
    IF key \in DictKeys(d)
    THEN d[CHOOSE n \in 1..Len(d) : d[n].k = key].v
    ELSE None

\* d[key] = value: a present key keeps its place, a new one goes last
DictSet(d, key, value) ==
    IF key \in DictKeys(d)
    THEN [n \in 1..Len(d) |-> IF d[n].k = key THEN [k |-> key, v |-> value] ELSE d[n]]
    ELSE Append(d, [k |-> key, v |-> value])

\* the empty database of load_codes_database and reload_templates
EmptyDb == [auflagen |-> <<>>, hinweise |-> <<>>, templates |-> <<>>]

----------------------------------------------------------------------------
(* PDFTemplateManager.classify_code and get_code_description *)

SpecialCodes == {<<"C","a","r">>, <<"C","o","u">>, <<"N","o","E">>, <<"B","n","K">>}

classify_code(code) ==
    LET c == Strip(code) IN
    IF \/ Len(c) = 3 /\ c[1] = "A" /\ c[2] \in Digit /\ c[3] \in Digit
       \/ Len(c) = 3 /\ c[1] = "A" /\ c[2] \in Upper /\ c[3] \in Lower
    THEN "auflagen"
    ELSE IF \/ Len(c) = 3 /\ c[1] \in {"S", "B", "F"} /\ c[2] \in Digit /\ c[3] \in Digit
            \/ c \in SpecialCodes
    THEN "hinweise"
    ELSE "None"

get_code_description(db, code) ==
    LET category == classify_code(code) IN
    IF category # "None" THEN DictGet(db[category], code) ELSE None

----------------------------------------------------------------------------
(* document_analyzer.validate_tire_combination *)

MinWidth == 155
MaxWidth == 335
MinAspect == 25
MaxAspect == 80
MinDiameter == 16
MaxDiameter == 22

InvalidFormat == "Ungültiges Reifenformat"
UnusualWidth == "Ungewöhnliche Reifenbreite"
UnusualAspect == "Ungewöhnliches Höhen-Breiten-Verhältnis"
UnusualDiameter == "Ungewöhnlicher Felgendurchmesser"
NotApproved == "Nicht zulässig"
ReviewRequired == "Prüfung erforderlich"
ApprovedWithRestrictions == "Zulässig mit Auflagen"
Approved == "Zulässig ohne Eintragung"

\* re.match(r'(\d+)/(\d+)R(\d+)', tire): anchored at the start only.  Each
\* \d+ takes its whole run of digits, since the character that must follow
\* it is no digit.
tire_match(tire) ==
    LET e1 == RunEnd(tire, 1, Digit)
        e2 == RunEnd(tire, e1 + 1, Digit)
        e3 == RunEnd(tire, e2 + 1, Digit)
    IN  IF /\ e1 > 1 /\ e1 <= Len(tire) /\ tire[e1] = "/"
           /\ e2 > e1 + 1 /\ e2 <= Len(tire) /\ tire[e2] = "R"
           /\ e3 > e2 + 1
        THEN [ok |-> TRUE,
              width |-> ToInt(Sub(tire, 1, e1)),
              aspect |-> ToInt(Sub(tire, e1 + 1, e2)),
              diameter |-> ToInt(Sub(tire, e2 + 1, e3))]
        ELSE [ok |-> FALSE, width |-> 0, aspect |-> 0, diameter |-> 0]

dimension_checks_first_only(width, aspect, diameter) ==
    IF width < MinWidth \/ width > MaxWidth THEN <<UnusualWidth>>
    ELSE IF aspect < MinAspect \/ aspect > MaxAspect THEN <<UnusualAspect>>
    ELSE IF diameter < MinDiameter \/ diameter > MaxDiameter THEN <<UnusualDiameter>>
    ELSE <<>>

\* lines 178-186: validation_messages
dimension_checks(width, aspect, diameter) ==
    (IF width < MinWidth \/ width > MaxWidth THEN <<UnusualWidth>> ELSE <<>>)
    \o (IF aspect < MinAspect \/ aspect > MaxAspect THEN <<UnusualAspect>> ELSE <<>>)
    \o (IF diameter < MinDiameter \/ diameter > MaxDiameter
        THEN <<UnusualDiameter>> ELSE <<>>)

\* lines 194-207: one output entry per attached code
resolve_codes(db, codes) ==
    [n \in 1..Len(codes) |->
        LET description == get_code_description(db, codes[n]) IN
        IF description # None /\ description # <<>>
        THEN codes[n] \o <<":", " ">> \o description
        ELSE codes[n]]

select_status_codes_first(validation_messages, auflagen) ==
    IF auflagen # <<>> THEN ApprovedWithRestrictions
    ELSE IF validation_messages # <<>> THEN ReviewRequired
    ELSE Approved

\* lines 210-215
select_status(validation_messages, auflagen) ==
    IF validation_messages # <<>> THEN ReviewRequired
    ELSE IF auflagen # <<>> THEN ApprovedWithRestrictions
    ELSE Approved

invalid_format_result_with_codes(db, codes) ==
    [status |-> NotApproved,
     hinweise |-> <<InvalidFormat>>,
     auflagen |-> resolve_codes(db, codes.auflagen),
     technische_hinweise |-> <<>>,
     looked_up |-> codes.auflagen]

\* lines 169-175; looked_up is the list of codes given to get_code_description
invalid_format_result(db, codes) ==
    [status |-> NotApproved,
     hinweise |-> <<InvalidFormat>>,
     auflagen |-> <<>>,
     technische_hinweise |-> <<>>,
     looked_up |-> <<>>]

validate_tire_combination(db, info) ==
    LET tire == info.groesse
        codes == info.codes
        match == tire_match(tire)
        validation_messages == dimension_checks(match.width, match.aspect, match.diameter)
    IN  IF ~match.ok THEN invalid_format_result(db, codes)
        ELSE [status |-> select_status(validation_messages, codes.auflagen),
              hinweise |-> validation_messages,
              auflagen |-> resolve_codes(db, codes.auflagen),
              technische_hinweise |-> resolve_codes(db, codes.hinweise),
              original_codes |-> codes,
              reifen_codes |-> codes.reifen_codes,
              looked_up |-> codes.auflagen \o codes.hinweise]

----------------------------------------------------------------------------
(* Literals of the patterns *)

Audi == <<"A","u","d","i">>
Reifen == <<"R","e","i","f","e","n">>
Zulaessig == <<"z","u","l","ä","s","s","i","g">>
Fuer == <<"f","ü","r">>

\* the labels of the attribute patterns of analyze_vehicle_data, in the
\* order of the patterns dict; an optional part gives two labels
AttributePatterns == <<
    [key |-> "manufacturer",
     labels |-> {<<"H","e","r","s","t","e","l","l","e","r",":">>,
                 <<"H","e","r","s","t","e","l","l","e","r","z","e","i","c","h","e","n",":">>}],
    [key |-> "wheel_size",
     labels |-> {<<"F","e","l","g","e","n","g","r","ö","ß","e",":">>}],
    [key |-> "type_version",
     labels |-> {<<"T","y","p"," ","u","n","d"," ","A","u","s","f","ü","h","r","u","n","g",":">>,
                 <<"T","y","p"," ","u","n","d"," ","d","i","e"," ",
                   "A","u","s","f","ü","h","r","u","n","g",":">>}],
    [key |-> "manufacture_date",
     labels |-> {<<"H","e","r","s","t","e","l","l","d","a","t","u","m"," ","(",
                   "M","o","n","a","t"," ","u","n","d"," ","J","a","h","r",")",":">>,
                 <<"H","e","r","s","t","e","l","l","d","a","t","u","m"," ","(",
                   "m","o","n","t","h"," ","a","n","d"," ","y","e","a","r",")",":">>}],
    [key |-> "approval_id",
     labels |-> {<<"G","e","n","e","h","m","i","g","u","n","g","s","z","e","i","c","h","e","n",":">>}],
    [key |-> "inset",
     labels |-> {<<"E","i","n","p","r","e","s","s","t","i","e","f","e",":">>}] >>

NoMatch == [ok |-> FALSE, code |-> <<>>, rest |-> <<>>]

Min(S) == CHOOSE x \in S : \A y \in S : x <= y

----------------------------------------------------------------------------
(* document_analyzer.extract_codes_from_line *)

\* the lookahead (?=[\s\.,]|$) at index e
boundary(s, e) == e > Len(s) \/ s[e] \in Space \cup {".", ","}

\* A(?:[0-9]+[a-z]?(?:\.[0-9]+)?|-[0-9]+) followed by the lookahead, from
\* index cs: the index after the code, 0 when there is no match.  The digits
\* and the lowercase letter cannot be given back (the character after a
\* shorter match is a digit or a letter, which neither continues the
\* pattern nor satisfies the lookahead); the .digits group can.
auflage_end(s, cs) ==
    IF ~(cs <= Len(s) /\ s[cs] = "A") THEN 0
    ELSE LET d == RunEnd(s, cs + 1, Digit)
             l == IF d <= Len(s) /\ s[d] \in Lower THEN d + 1 ELSE d
             f == IF l <= Len(s) /\ s[l] = "." THEN RunEnd(s, l + 1, Digit) ELSE l
             h == RunEnd(s, cs + 2, Digit)
         IN  IF d > cs + 1
             THEN IF f > l + 1 /\ boundary(s, f) THEN f
                  ELSE IF boundary(s, l) THEN l ELSE 0
             ELSE IF HasAt(s, cs + 1, <<"-">>) /\ h > cs + 2 /\ boundary(s, h) THEN h
             ELSE 0

\* T\d+ followed by the lookahead
reifen_end(s, cs) ==
    IF ~(cs <= Len(s) /\ s[cs] = "T") THEN 0
    ELSE LET d == RunEnd(s, cs + 1, Digit)
         IN  IF d > cs + 1 /\ boundary(s, d) THEN d ELSE 0

\* [BCDEFGHIJKLMNOPQRSUVWXYZ]\d+[a-z]?|Car|Cou|NoE|BnK followed by the lookahead
hinweis_end(s, cs) ==
    IF cs > Len(s) THEN 0
    ELSE LET d == RunEnd(s, cs + 1, Digit)
             l == IF d <= Len(s) /\ s[d] \in Lower THEN d + 1 ELSE d
         IN  IF s[cs] \in Upper \ {"A", "T"} /\ d > cs + 1 /\ boundary(s, l) THEN l
             ELSE IF (\E w \in SpecialCodes : HasAt(s, cs, w)) /\ boundary(s, cs + 3)
             THEN cs + 3
             ELSE 0

code_end(category, s, cs) ==
    CASE category = "auflagen" -> auflage_end(s, cs)
      [] category = "reifen" -> reifen_end(s, cs)
      [] category = "hinweise" -> hinweis_end(s, cs)

RECURSIVE find_codes(_, _, _)
\* [m.group(1) for m in re.finditer(patterns[category], s)], searching from
\* index p.  (?:^|\s): the code starts at the start of the string or after
\* one whitespace character, which the match consumes.
find_codes(category, s, p) ==
    IF p > Len(s) THEN <<>>
    ELSE LET cs == IF p = 1 /\ code_end(category, s, 1) > 0 THEN 1
                   ELSE IF s[p] \in Space /\ code_end(category, s, p + 1) > 0 THEN p + 1
                   ELSE 0
         IN  IF cs = 0 THEN find_codes(category, s, p + 1)
             ELSE <<Sub(s, cs, code_end(category, s, cs))>>
                  \o find_codes(category, s, code_end(category, s, cs))

extract_codes_from_line_hyphen_kept(line) ==
    LET a == find_codes("auflagen", line, 1)
        t == find_codes("reifen", line, 1)
        h == find_codes("hinweise", line, 1)
    IN  [auflagen |-> a,
         hinweise |-> h,
         reifen_codes |-> [n \in 1..Len(t) |-> [code |-> t[n], beschreibung |-> Strip(line)]]]

extract_codes_from_line(line) ==
    LET a == find_codes("auflagen", line, 1)
        t == find_codes("reifen", line, 1)
        h == find_codes("hinweise", line, 1)
    IN  [auflagen |-> [n \in 1..Len(a) |-> Remove(a[n], "-")],
         hinweise |-> h,
         reifen_codes |-> [n \in 1..Len(t) |-> [code |-> t[n], beschreibung |-> Strip(line)]]]

----------------------------------------------------------------------------
(* The patterns of document_analyzer.analyze_vehicle_data *)

\* re.match(r'^([A-Z]\d+[a-z]?(?:\.[0-9]+)?)\s+(.+)$', line).  Nothing of the
\* code can be given back, since \s+ must follow it; \s+ gives back one
\* character only when it would otherwise run to the end of the line.
code_match(line) ==
    LET d == RunEnd(line, 2, Digit)
        l == IF d <= Len(line) /\ line[d] \in Lower THEN d + 1 ELSE d
        g == IF l <= Len(line) /\ line[l] = "." THEN RunEnd(line, l + 1, Digit) ELSE l
        f == IF g > l + 1 THEN g ELSE l
        w == RunEnd(line, f, Space)
        r == IF w <= Len(line) THEN w ELSE w - 1
    IN  IF Len(line) >= 2 /\ line[1] \in Upper /\ d > 2 /\ r > f
        THEN [ok |-> TRUE, code |-> Sub(line, 1, f), rest |-> Sub(line, r, Len(line) + 1)]
        ELSE NoMatch

\* (T\d+)\s+Reifen\s+\([^)]+\)\s+zulässig\s+für\s+([^\n]+) at index i
t_code_at(s, i) ==
    LET d == RunEnd(s, i + 1, Digit)
        w1 == RunEnd(s, d, Space)
        r == w1 + Len(Reifen)
        w2 == RunEnd(s, r, Space)
        p == RunEndNot(s, w2 + 1, {")"})
        w3 == RunEnd(s, p + 1, Space)
        z == w3 + Len(Zulaessig)
        w4 == RunEnd(s, z, Space)
        f == w4 + Len(Fuer)
        w5 == RunEnd(s, f, Space)
        g == IF w5 <= Len(s) THEN w5 ELSE w5 - 1
    IN  IF /\ s[i] = "T" /\ d > i + 1
           /\ w1 > d /\ HasAt(s, w1, Reifen)
           /\ w2 > r /\ HasAt(s, w2, <<"(">>)
           /\ p > w2 + 1 /\ HasAt(s, p, <<")">>)
           /\ w3 > p + 1 /\ HasAt(s, w3, Zulaessig)
           /\ w4 > z /\ HasAt(s, w4, Fuer)
           /\ g > f
        THEN [ok |-> TRUE, code |-> Sub(s, i, d), rest |-> Sub(s, g, Len(s) + 1)]
        ELSE NoMatch

\* re.search(patterns['t_code'], line): the leftmost match
t_code_search(s) ==
    LET I == {i \in 1..Len(s) : t_code_at(s, i).ok}
    IN  IF I = {} THEN NoMatch ELSE t_code_at(s, Min(I))

\* Audi\s+([A-Z][A-Z0-9\s]+) at index i; rest is group 1
audi_at(s, i) ==
    LET w == RunEnd(s, i + Len(Audi), Space)
        e == RunEnd(s, w + 1, Upper \cup Digit \cup Space)
    IN  IF /\ HasAt(s, i, Audi) /\ w > i + Len(Audi)
           /\ w <= Len(s) /\ s[w] \in Upper /\ e > w + 1
        THEN [ok |-> TRUE, code |-> Audi, rest |-> Sub(s, w, e)]
        ELSE NoMatch

\* re.search(patterns['audi_header'], line)
audi_search(s) ==
    LET I == {i \in 1..Len(s) : audi_at(s, i).ok}
    IN  IF I = {} THEN NoMatch ELSE audi_at(s, Min(I))

\* (\d{2,3})[/-](\d{2,3})(?:ZR|R)(\d{2}) at index i: end is the index after
\* the match, 0 when there is none.  \d{2,3} takes three digits when three
\* stand there (the third is then no separator), two otherwise.
tire_at(s, i) ==
    LET n1 == RunEnd(s, i, Digit) - i
        g1 == IF n1 >= 3 THEN 3 ELSE n1
        j == i + g1 + 1
        n2 == RunEnd(s, j, Digit) - j
        g2 == IF n2 >= 3 THEN 3 ELSE n2
        k == j + g2
        m == IF HasAt(s, k, <<"Z", "R">>) THEN k + 2 ELSE k + 1
    IN  IF /\ g1 >= 2 /\ i + g1 <= Len(s) /\ s[i + g1] \in {"/", "-"}
           /\ g2 >= 2 /\ (HasAt(s, k, <<"Z", "R">>) \/ HasAt(s, k, <<"R">>))
           /\ m + 1 <= Len(s) /\ s[m] \in Digit /\ s[m + 1] \in Digit
        THEN [end |-> m + 2,
              size |-> Sub(s, i, i + g1) \o <<"/">> \o Sub(s, j, k)
                       \o <<"R">> \o Sub(s, m, m + 2)]
        ELSE [end |-> 0, size |-> <<>>]

RECURSIVE find_tires(_, _)
\* [f"{m.group(1)}/{m.group(2)}R{m.group(3)}" for m in re.finditer(patterns['tire'], s)]
find_tires(s, p) ==
    IF p > Len(s) THEN <<>>
    ELSE IF tire_at(s, p).end = 0 THEN find_tires(s, p + 1)
    ELSE <<tire_at(s, p).size>> \o find_tires(s, tire_at(s, p).end)

\* <label>\s*([^\n]+) at index i: \s* gives back one character when it runs
\* to the end of the line
label_at(s, i, labels) ==
    IF \E lab \in labels : HasAt(s, i, lab)
    THEN LET lab == CHOOSE x \in labels : HasAt(s, i, x)
             a == i + Len(lab)
             w == RunEnd(s, a, Space)
             g == IF w <= Len(s) THEN w ELSE w - 1
         IN  IF g >= a /\ g <= Len(s)
             THEN [ok |-> TRUE, code |-> lab, rest |-> Sub(s, g, Len(s) + 1)]
             ELSE NoMatch
    ELSE NoMatch

\* re.search(pattern, line) for an attribute pattern
label_search(s, labels) ==
    LET I == {i \in 1..Len(s) : label_at(s, i, labels).ok}
    IN  IF I = {} THEN NoMatch ELSE label_at(s, Min(I), labels)

RECURSIVE type_end(_, _)
\* (?:,\s*B\d+)* at index e, greedy: the index after the last repetition
type_end(s, e) ==
    LET w == RunEnd(s, e + 1, Space)
        d == RunEnd(s, w + 1, Digit)
    IN  IF e <= Len(s) /\ s[e] = "," /\ w <= Len(s) /\ s[w] = "B" /\ d > w + 1
        THEN type_end(s, d)
        ELSE e

\* (?:B\d+(?:,\s*B\d+)*) at index i; rest is group 0
type_at(s, i) ==
    LET d == RunEnd(s, i + 1, Digit)
    IN  IF i <= Len(s) /\ s[i] = "B" /\ d > i + 1
        THEN [ok |-> TRUE, code |-> <<>>, rest |-> Sub(s, i, type_end(s, d))]
        ELSE NoMatch

\* re.search(patterns['type'], s)
type_search(s) ==
    LET I == {i \in 1..Len(s) : type_at(s, i).ok}
    IN  IF I = {} THEN NoMatch ELSE type_at(s, Min(I))

----------------------------------------------------------------------------
(* document_analyzer.analyze_vehicle_data: the body of the for loop as a    *)
(* function of the scan state st = [db, vehicles, current_vehicle,          *)
(* current_code_block, code_description] and the raw line                   *)

flush_code_block_skipped(db, block, description) == db

\* lines 90-91 and 100-101
flush_code_block(db, block, description) ==
    IF block # None /\ block # <<>> /\ description # <<>>
    THEN [db EXCEPT !.auflagen = DictSet(@, block, Join(description))]
    ELSE db

append_description_dropped(st, line) == st

\* lines 105-106: a line read while a code block is pending joins its
\* description
append_description(st, line) ==
    IF st.current_code_block # None
    THEN [st EXCEPT !.code_description = Append(@, line)]
    ELSE st

\* lines 126-132
new_vehicle(model_name) ==
    [fahrzeug |-> Audi \o <<" ">> \o Strip(model_name),
     reifen |-> <<>>,
     kennzeichnungen |-> <<>>,
     reifen_codes |-> <<>>]

\* lines 136-145: one entry per tire size of the line
tire_entries(line) ==
    LET sizes == find_tires(line, 1)
    IN  [n \in 1..Len(sizes) |->
            [groesse |-> sizes[n],
             codes |-> extract_codes_from_line(line),
             original_line |-> line]]

RECURSIVE set_attributes(_, _, _)
\* lines 147-151, from pattern n on
set_attributes(kennzeichnungen, line, n) ==
    IF n > Len(AttributePatterns) THEN kennzeichnungen
    ELSE LET m == label_search(line, AttributePatterns[n].labels)
         IN  set_attributes(
                 IF m.ok THEN DictSet(kennzeichnungen, AttributePatterns[n].key, Strip(m.rest))
                 ELSE kennzeichnungen,
                 line, n + 1)

\* lines 135-151
vehicle_line(v, line) ==
    [v EXCEPT !.reifen = @ \o tire_entries(line),
              !.kennzeichnungen = set_attributes(@, line, 1)]

scan_line(st, raw) ==
    LET line == Strip(raw)
        cm == code_match(line)
        st1 == append_description(st, line)
        tm == t_code_search(line)
        am == audi_search(line)
        cv == st.current_vehicle
    IN  IF line = <<>>
        THEN [st EXCEPT !.db = flush_code_block(@, st.current_code_block, st.code_description),
                        !.current_code_block = None,
                        !.code_description = <<>>]
        ELSE IF cm.ok
        THEN [st EXCEPT !.db = flush_code_block(@, st.current_code_block, st.code_description),
                        !.current_code_block = cm.code,
                        !.code_description = <<cm.rest>>]
        ELSE IF tm.ok
        THEN IF cv # <<>>
             THEN [st1 EXCEPT !.current_vehicle =
                      <<[cv[1] EXCEPT !.reifen_codes =
                            Append(@, [code |-> tm.code, beschreibung |-> Strip(tm.rest)])]>>]
             ELSE st1
        ELSE IF am.ok
        THEN [st1 EXCEPT !.vehicles = IF cv # <<>> THEN Append(@, cv[1]) ELSE @,
                         !.current_vehicle = <<new_vehicle(am.rest)>>]
        ELSE IF cv # <<>>
        THEN [st1 EXCEPT !.current_vehicle = <<vehicle_line(cv[1], line)>>]
        ELSE st1

\* lines 153-157
finalize(vs, cv) ==
    IF cv # <<>> /\ (Len(cv[1].reifen) > 0 \/ Len(cv[1].reifen_codes) > 0)
    THEN Append(vs, cv[1])
    ELSE vs

----------------------------------------------------------------------------
(* pdf_processor.extract_vehicle_info, the fallback of                      *)
(* analyze_vehicle_tire_combination: a vehicle is [fahrzeug, reifen], reifen *)
(* the set of the size strings                                              *)

\* lines 51-80, one iteration on st = [vehicles, current_vehicle]
fallback_line(st, raw) ==
    LET line == Strip(raw)
        am == audi_search(line)
        tm == type_search(line)
        cv == st.current_vehicle
    IN  IF line = <<>> THEN st
        ELSE IF am.ok
        THEN [vehicles |-> IF cv # <<>> THEN Append(st.vehicles, cv[1]) ELSE st.vehicles,
              current_vehicle |-> <<[fahrzeug |-> Audi \o <<" ">> \o Strip(am.rest),
                                     reifen |-> {}]>>]
        ELSE IF cv # <<>>
        THEN [st EXCEPT !.current_vehicle =
                 <<[fahrzeug |-> IF tm.ok THEN cv[1].fahrzeug \o <<" ">> \o tm.rest
                                 ELSE cv[1].fahrzeug,
                    reifen |-> cv[1].reifen \cup Range(find_tires(line, 1))]>>]
        ELSE st

RECURSIVE fallback_loop(_, _)
fallback_loop(st, ls) ==
    IF ls = <<>> THEN st ELSE fallback_loop(fallback_line(st, Head(ls)), Tail(ls))

\* lines 29-87
extract_vehicle_info(ls) ==
    LET st == fallback_loop([vehicles |-> <<>>, current_vehicle |-> <<>>], ls)
    IN  IF st.current_vehicle # <<>> /\ st.current_vehicle[1].reifen # {}
        THEN Append(st.vehicles, st.current_vehicle[1])
        ELSE st.vehicles

----------------------------------------------------------------------------
(* data_analyzer.analyze_vehicle_tire_combination after its call of         *)
(* analyze_vehicle_data                                                     *)

\* lines 26-33: the record of one tire entry
combination_record(db, vehicle, info) ==
    LET combination_status == validate_tire_combination(db, info)
    IN  [fahrzeug |-> vehicle.fahrzeug,
         reifengroesse |-> info.groesse,
         status |-> combination_status.status,
         hinweise |-> combination_status.hinweise,
         auflagen |-> combination_status.auflagen]

RECURSIVE combination_records(_, _)
\* lines 24-33 over the vehicles of analyze_vehicle_data
combination_records(db, vs) ==
    IF vs = <<>> THEN <<>>
    ELSE [n \in 1..Len(Head(vs).reifen) |-> combination_record(db, Head(vs), Head(vs).reifen[n])]
         \o combination_records(db, Tail(vs))

\* line 26 on an entry of the fallback: tire_info is a str, and line 163 of
\* document_analyzer.py subscripts it with 'groesse', which raises TypeError
fallback_raises(vs) == \E n \in 1..Len(vs) : vs[n].reifen # {}

----------------------------------------------------------------------------
(* PDFTemplateManager.extract_codes_from_text *)

\* re.match(r'(?:^|\s)([A-Z][A-Za-z0-9]{2,})\s+([^A\n][^\n]+)', line) on a
\* stripped line.  The code takes its whole run of letters and digits.  \s+
\* is greedy; when the description then starts with "A" or has one
\* character only, \s+ gives back one whitespace character, which becomes
\* the first character of group 2.  rest is group 2.
code_line_match(line) ==
    LET e == RunEnd(line, 2, Alnum)
        w == RunEnd(line, e, Space)
    IN  IF Len(line) >= 1 /\ line[1] \in Upper /\ e >= 4 /\ w > e
        THEN IF w + 1 <= Len(line) /\ line[w] # "A"
             THEN [ok |-> TRUE, code |-> Sub(line, 1, e), rest |-> Sub(line, w, Len(line) + 1)]
             ELSE IF w - 1 > e /\ w <= Len(line)
             THEN [ok |-> TRUE, code |-> Sub(line, 1, e),
                   rest |-> Sub(line, w - 1, Len(line) + 1)]
             ELSE IF w - 2 > e /\ w > Len(line)
             THEN [ok |-> TRUE, code |-> Sub(line, 1, e),
                   rest |-> Sub(line, w - 2, Len(line) + 1)]
             ELSE NoMatch
        ELSE NoMatch

\* re.match(r'^(?!\s*[A-Z][A-Za-z0-9]{2,}\s)[^\n]+$', line)
continuation_match(line) ==
    LET a == RunEnd(line, 1, Space)
        e == RunEnd(line, a + 1, Alnum)
    IN  /\ line # <<>>
        /\ ~(/\ a <= Len(line) /\ line[a] \in Upper
             /\ e >= a + 3 /\ e <= Len(line) /\ line[e] \in Space)

\* lines 98-101, 110-113, 123-126
store_code(codes, code, description) ==
    IF code # None /\ description # <<>> /\ classify_code(code) # "None"
    THEN [codes EXCEPT ![classify_code(code)] = DictSet(@, code, Join(description))]
    ELSE codes

RECURSIVE extract_loop(_, _, _, _, _)
\* the for loop of lines 95-120 from line n on, then lines 122-128
extract_loop(text, n, codes, current_code, current_description) ==
    IF n > Len(text) THEN store_code(codes, current_code, current_description)
    ELSE LET line == Strip(text[n])
             cm == code_line_match(line)
         IN  IF line = <<>>
             THEN IF current_code # None /\ current_description # <<>>
                  THEN extract_loop(text, n + 1,
                                    store_code(codes, current_code, current_description),
                                    None, <<>>)
                  ELSE extract_loop(text, n + 1, codes, current_code, current_description)
             ELSE IF cm.ok
             THEN extract_loop(text, n + 1,
                               store_code(codes, current_code, current_description),
                               cm.code, <<Strip(cm.rest)>>)
             ELSE IF current_code # None /\ continuation_match(line)
             THEN extract_loop(text, n + 1, codes, current_code,
                               Append(current_description, line))
             ELSE extract_loop(text, n + 1, codes, current_code, current_description)

extract_codes_from_text(text) ==
    extract_loop(text, 1, [auflagen |-> <<>>, hinweise |-> <<>>], None, <<>>)

----------------------------------------------------------------------------
(* PDFTemplateManager: the store, learn_from_pdf, reload_templates *)

\* codes_database.json: absent, unparseable, or the JSON of a database
MissingFile == [state |-> "missing", db |-> EmptyDb]
CorruptFile == [state |-> "corrupt", db |-> EmptyDb]
JsonFile(db) == [state |-> "json", db |-> db]

\* lines 20-38
load_codes_database(file) ==
    IF file.state = "json" THEN file.db ELSE EmptyDb

\* line 43: open(..., 'w') has emptied the file; until the dump is flushed
\* and the file closed it holds nothing or the beginning of the JSON text
TruncatedFile == [state |-> "truncated", db |-> EmptyDb]

\* lines 40-47: a failed open is logged, the file stays as it is
save_codes_database(file, db, can_write) ==
    IF can_write THEN JsonFile(db) ELSE file

\* A PDF: its text (the lines of extract_pdf_content's result), or a file
\* PyPDF2 cannot read, or (in templates/) a file open() fails on.
TextPdf(text) == [kind |-> "text", text |-> text]
UnreadablePdf == [kind |-> "unreadable", text |-> << <<>> >>]
NoAccessPdf == [kind |-> "noaccess", text |-> << <<>> >>]

\* the empty string, split into lines
EmptyText == << <<>> >>

NoStats == [new |-> 0, updated |-> 0]

(* Reference documents *)

RefText1 ==
    << <<"A","1","2"," ","x","y">>, <<"z","u">>, <<>>, <<"B","1","2"," ","n","o">> >>
RefText2 ==
    << <<"A","1","2"," "," ","A","z">>, <<"C","a","r"," ","c","c">>, <<"T","1","2"," ","t","t">> >>
RefText3 ==
    << <<"A","G","b"," ","q","1">>, <<"A","1","2"," ","A","b">>, <<"S","0","1"," ","s">> >>

\* the PDFs of the model, by name
Pdfs ==
    [ref1 |-> TextPdf(RefText1), ref2 |-> TextPdf(RefText2), ref3 |-> TextPdf(RefText3),
     empty |-> TextPdf(EmptyText), unreadable |-> UnreadablePdf, noaccess |-> NoAccessPdf]

\* line 141, new_codes, for each text of the model
NewCodes ==
    [t \in {Pdfs[p].text : p \in DOMAIN Pdfs} |-> extract_codes_from_text(t)]

upsert_keep_existing(st, category, code, description) ==
    IF code \notin DictKeys(st.db[category])
    THEN [db |-> [st.db EXCEPT ![category] = DictSet(@, code, description)],
          new |-> st.new + 1, updated |-> st.updated]
    ELSE st

upsert_always_counts(st, category, code, description) ==
    IF code \notin DictKeys(st.db[category])
    THEN [db |-> [st.db EXCEPT ![category] = DictSet(@, code, description)],
          new |-> st.new + 1, updated |-> st.updated]
    ELSE [db |-> [st.db EXCEPT ![category] = DictSet(@, code, description)],
          new |-> st.new, updated |-> st.updated + 1]

\* lines 149-156, st = [db, new, updated]
upsert(st, category, code, description) ==
    IF code \notin DictKeys(st.db[category])
    THEN [db |-> [st.db EXCEPT ![category] = DictSet(@, code, description)],
          new |-> st.new + 1, updated |-> st.updated]
    ELSE IF DictGet(st.db[category], code) # description
    THEN [db |-> [st.db EXCEPT ![category] = DictSet(@, code, description)],
          new |-> st.new, updated |-> st.updated + 1]
    ELSE st

RECURSIVE upsert_items(_, _, _, _)
\* line 148, from item n on
upsert_items(st, category, items, n) ==
    IF n > Len(items) THEN st
    ELSE upsert_items(upsert(st, category, items[n].k, items[n].v), category, items, n + 1)

\* lines 144-156
update_database(db, new_codes) ==
    upsert_items(
        upsert_items([db |-> db, new |-> 0, updated |-> 0], "auflagen", new_codes.auflagen, 1),
        "hinweise", new_codes.hinweise, 1)

\* lines 159-160
add_template(db, template_name) ==
    IF template_name \in Range(db.templates) THEN db
    ELSE [db EXCEPT !.templates = Append(@, template_name)]

\* lines 147-160: the key of codes_database whose absence raises KeyError,
\* "" when none does.  A category is subscripted only when new_codes holds a
\* code for it.
missing_key(db, new_codes) ==
    IF new_codes.auflagen # <<>> /\ "auflagen" \notin DOMAIN db THEN "auflagen"
    ELSE IF new_codes.hinweise # <<>> /\ "hinweise" \notin DOMAIN db THEN "hinweise"
    ELSE IF "templates" \notin DOMAIN db THEN "templates"
    ELSE ""

\* lines 130-168 on m = [db, file, stats]; ok is the return value.  A
\* KeyError leaves what the loop stored before it and skips the save.
learn_from_pdf(m, pdf, template_name, can_write) ==
    IF pdf.kind # "text" \/ pdf.text = EmptyText
    THEN [db |-> m.db, file |-> m.file, stats |-> m.stats, ok |-> FALSE]
    ELSE LET new_codes == NewCodes[pdf.text]
             key == missing_key(m.db, new_codes)
             u == update_database(m.db, IF key = "hinweise"
                                        THEN [new_codes EXCEPT !.hinweise = <<>>]
                                        ELSE new_codes)
         IN  IF key = "auflagen"
             THEN [db |-> m.db, file |-> m.file, stats |-> m.stats, ok |-> FALSE]
             ELSE IF key # ""
             THEN [db |-> u.db, file |-> m.file, stats |-> m.stats, ok |-> FALSE]
             ELSE LET db == add_template(u.db, template_name)
                  IN  [db |-> db,
                       file |-> save_codes_database(m.file, db, can_write),
                       stats |-> [new |-> u.new, updated |-> u.updated],
                       ok |-> TRUE]

RECURSIVE reload_loop_abort(_, _, _, _, _)
reload_loop_abort(m, dir, names, order, can_write) ==
    IF order = <<>> THEN m
    ELSE IF Pdfs[dir[Head(order)]].kind = "noaccess" THEN m
    ELSE LET r == learn_from_pdf(m, Pdfs[dir[Head(order)]], names[Head(order)], can_write)
         IN  reload_loop_abort([db |-> r.db, file |-> r.file, stats |-> r.stats],
                               dir, names, Tail(order), can_write)

RECURSIVE reload_loop(_, _, _, _, _)
\* lines 200-210 over the rest of template_files
reload_loop(m, dir, names, order, can_write) ==
    IF order = <<>> THEN m
    ELSE IF Pdfs[dir[Head(order)]].kind = "noaccess"
    THEN reload_loop(m, dir, names, Tail(order), can_write)
    ELSE LET r == learn_from_pdf(m, Pdfs[dir[Head(order)]], names[Head(order)], can_write)
         IN  reload_loop([db |-> r.db, file |-> r.file, stats |-> r.stats],
                         dir, names, Tail(order), can_write)

\* lines 185-216; order is the result of os.listdir
reload_templates(m, dir, names, order, can_write) ==
    reload_loop([m EXCEPT !.db = EmptyDb], dir, names, order, can_write)

----------------------------------------------------------------------------
(* Bounds and inputs *)

MaxLines == 3      \* lines of an analysed document
MaxCodes == 2      \* restriction codes attached to a validated tire entry
MaxFiles == 2      \* *.pdf files in templates/

RECURSIVE SeqsUpTo(_, _)
\* the sequences over S of length at most n
SeqsUpTo(S, n) ==
    IF n = 0 THEN {<<>>}
    ELSE LET shorter == SeqsUpTo(S, n - 1)
         IN  shorter \cup {Append(q, x) : q \in shorter, x \in S}

RECURSIVE Digits(_)
\* str(n)
Digits(n) ==
    LET c == <<"0","1","2","3","4","5","6","7","8","9">>
    IN  IF n < 10 THEN <<c[n + 1]>> ELSE Digits(n \div 10) \o <<c[(n % 10) + 1]>>

cA12 == <<"A","1","2">>
cA99 == <<"A","9","9">>
cB12 == <<"B","1","2">>
cCar == <<"C","a","r">>

\* the content of a store written by hand or by another program: JSON that
\* parses, without the keys 'hinweise' and 'templates'
ForeignDb == [auflagen |-> <<[k |-> cA12, v |-> <<"x","y">>]>>]

\* a glossary as learn_from_pdf leaves it
LearnedDb ==
    [auflagen |-> <<[k |-> cA12, v |-> <<"x","y">>]>>,
     hinweise |-> <<[k |-> cB12, v |-> <<"n","o">>]>>,
     templates |-> <<"KBA-2024-001">>]

NoInfo == [groesse |-> <<>>, codes |-> [auflagen |-> <<>>, hinweise |-> <<>>, reifen_codes |-> <<>>],
           original_line |-> <<>>]
NoResult == [status |-> "none"]

(* Inputs of validate_tire_combination *)

Widths == {5, 154, 155, 245, 335, 336, 1000}
Aspects == {24, 25, 45, 80, 81}
Diameters == {15, 16, 18, 22, 23}

SizeString(w, a, d) == Digits(w) \o <<"/">> \o Digits(a) \o <<"R">> \o Digits(d)

\* size strings the pattern of validate_tire_combination does not match
MalformedSizes ==
    {<<>>,
     <<"a","b","c","R","1","7">>,
     <<"2","3","5","-","4","5","R","1","8">>,
     <<"2","3","5","/","4","5","Z","R","1","8">>,
     <<"2","3","5","/","4","5","r","1","8">>,
     <<"2","3","5","/","4","5">>,
     <<"2","3","5","/","R","1","8">>,
     <<"/","4","5","R","1","8">>,
     <<" ","2","3","5","/","4","5","R","1","8">>,
     <<"2","3","5"," ","/"," ","4","5"," ","R","1","8">>}

AttachedCodes ==
    {[auflagen |-> a, hinweise |-> h, reifen_codes |-> <<>>] :
        a \in SeqsUpTo({cA12, cA99}, MaxCodes), h \in {<<>>, <<cB12>>, <<cCar, cB12>>}}

WellFormedInputs ==
    {[groesse |-> SizeString(w, a, d), codes |-> c, original_line |-> SizeString(w, a, d)] :
        w \in Widths, a \in Aspects, d \in Diameters, c \in AttachedCodes}

MalformedInputs ==
    {[groesse |-> m, codes |-> c, original_line |-> m] : m \in MalformedSizes, c \in AttachedCodes}

ValidatorInputs == WellFormedInputs \cup MalformedInputs

(* Inputs of analyze_vehicle_data *)

BlankLines == {<<>>, <<" ">>}

\* code, whitespace, description
CodeHeaderParts ==
    {[code |-> <<"A","1","2","a">>, ws |-> <<" ">>, desc |-> <<"K","o","t","f","l">>],
     [code |-> cA12, ws |-> <<" ">>, desc |-> <<"2","3","5","/","4","5","R","1","8">>],
     [code |-> <<"T","1">>, ws |-> <<" ">>,
      desc |-> <<"R","e","i","f","e","n"," ","(","v",")"," ",
                 "z","u","l","ä","s","s","i","g"," ","f","ü","r"," ","h">>],
     [code |-> cB12, ws |-> <<" ", "\t">>, desc |-> <<"x"," ","y">>],
     [code |-> <<"A","1","2",".","5">>, ws |-> <<" ", " ">>, desc |-> <<"A","u","d","i"," ","A","4">>],
     [code |-> <<"X","1","a",".","2","5">>, ws |-> <<"\t">>, desc |-> <<"1">>]}

RenderHeader(h) == h.code \o h.ws \o h.desc

\* model designation of a vehicle header
Models == {<<"A","4">>, <<"Q","5">>, <<"T","T">>, <<"A","4"," ","B","8">>}

RenderVehicle(m) == Audi \o <<" ">> \o m

\* width, separator, aspect, R or ZR, diameter, restriction code
TireParts ==
    {[w |-> w, sep |-> sep, a |-> <<"4","5">>, r |-> r, d |-> <<"1","8">>, code |-> c] :
        w \in {<<"2","3","5">>, <<"9","5">>},
        sep \in {<<"/">>, <<"-">>},
        r \in {<<"R">>, <<"Z","R">>},
        c \in {cA12, <<"A","1","2","a">>, <<"A","1","2",".","1">>, <<"A","-","1","2">>}}

RenderTire(t) == t.w \o t.sep \o t.a \o t.r \o t.d \o <<" ">> \o t.code

CoreLines ==
    {<<>>,
     RenderVehicle(<<"A","4">>),
     <<" ">> \o RenderVehicle(<<"Q","5">>) \o <<" ">>,
     <<"2","3","5","/","4","5","R","1","8"," ","A","1","2">>,
     <<"2","2","5","-","5","0","Z","R","1","7">>,
     <<"A","1","2","a"," ","K","o","t","f","l">>,
     <<"z","u">>,
     <<"x"," ","T","1"," ","R","e","i","f","e","n"," ","(","v",")"," ",
       "z","u","l","ä","s","s","i","g"," ","f","ü","r"," ","h">>,
     <<"H","e","r","s","t","e","l","l","e","r",":"," ","A","B">>,
     <<"A","1","2"," ","2","3","5","/","4","5","R","1","8">>}

\* a code header, padded, and a blank line
HeaderDocs ==
    {<<lead \o RenderHeader(h) \o trail, b>> :
        h \in CodeHeaderParts, lead \in {<<>>, <<" ">>}, trail \in {<<>>, <<" ">>}, b \in BlankLines}

\* a vehicle header and a tire line with a restriction code
PairDocs ==
    {<<RenderVehicle(m) \o trail, RenderTire(t)>> : m \in Models, t \in TireParts, trail \in {<<>>, <<" ">>}}

\* a tire line with the restriction code behind the size, and one with the
\* code in front of it
TireLines ==
    {<<"2","3","5","/","4","5","R","1","8"," ","A","1","2">>,
     <<"A","1","2"," ","2","3","5","/","4","5","R","1","8">>}

TCodeSentence ==
    <<"T","1">> \o <<" ">> \o Reifen \o <<" ","(","v",")"," ">> \o Zulaessig
        \o <<" ">> \o Fuer \o <<" ","h"," ">>

\* a vehicle header and a tire-combination sentence, the T-code first on its
\* line or behind another token
TCodeDocs ==
    {<<RenderVehicle(m), lead \o TCodeSentence>> :
        m \in {<<"A","4">>, <<"Q","5">>}, lead \in {<<>>, <<" ">>, <<"x"," ">>}}

ManufacturerLabels ==
    {<<"H","e","r","s","t","e","l","l","e","r",":"," ">>,
     <<"H","e","r","s","t","e","l","l","e","r","z","e","i","c","h","e","n",":">>}

\* a vehicle with two manufacturer lines and a tire line
AttributeDocs ==
    {<<RenderVehicle(<<"A","4">>), l1 \o v1, l2 \o v2, t>> :
        l1 \in ManufacturerLabels, l2 \in ManufacturerLabels,
        v1 \in {<<"A","B">>, <<"C","D">>}, v2 \in {<<"A","B">>, <<"C","D">>},
        t \in TireLines}

TypeTokens ==
    {<<"B","8">>, <<"B","8",","," ","B","8","1">>, <<"T","y","p"," ","B","8",",","B","9"," ">>}

\* a vehicle, a line with a type token, a tire line
TypeDocs ==
    {<<RenderVehicle(<<"A","4">>), ty, t>> : ty \in TypeTokens, t \in TireLines}

\* lines that follow a code header without being one
ContinuationLines ==
    {<<"z","u">>,
     <<"2","3","5","/","4","5","R","1","8"," ","A","1","2"," ">>,
     <<"H","e","r","s","t","e","l","l","e","r",":"," ","A","B">>,
     <<" ">> \o RenderVehicle(<<"Q","5">>),
     <<"x"," ">> \o TCodeSentence}

\* a vehicle, a code header, two lines that continue its description, and
\* the blank line or code header that ends the block
PendingDocs ==
    {<<RenderVehicle(<<"A","4">>), <<"A","1","2","a"," ","K","o","t","f","l">>, c1, c2, e>> :
        c1 \in ContinuationLines, c2 \in ContinuationLines,
        e \in {<<>>, <<" ">>, <<"B","1","2"," ","x">>, <<"A","1","2","a"," ","n","e","u">>}}

Documents ==
    (SeqsUpTo(CoreLines, MaxLines) \ {<<>>}) \cup HeaderDocs \cup PairDocs
        \cup TCodeDocs \cup AttributeDocs \cup TypeDocs \cup PendingDocs

(* Uploads and the files of templates/ *)

UploadedPdfs == {"ref1", "ref3", "empty", "unreadable"}
StoredPdfs == {"ref1", "ref2", "unreadable", "noaccess"}
UploadNames == {"KBA-2024-001"}
FileNames == <<"a.pdf", "b.pdf", "c.pdf", "d.pdf">>

\* up to MaxFiles files, each a different document
TemplateDirs ==
    {dir \in UNION {[1..n -> StoredPdfs] : n \in 0..MaxFiles} :
        \A i, j \in 1..Len(dir) : i # j => dir[i] # dir[j]}

\* the orders os.listdir can give n files in
ListDirOrders(n) ==
    {o \in [1..n -> 1..n] : \A i, j \in 1..n : i # j => o[i] # o[j]}

SpecInputs ==
    {[groesse |-> SizeString(235, 45, 18),
      codes |-> [auflagen |-> <<cA12>>, hinweise |-> <<cB12>>, reifen_codes |-> <<>>],
      original_line |-> <<>>]}

NoPdf == "none"
NoOp == [kind |-> "none", pdf |-> NoPdf, name |-> "", order |-> <<>>, ok |-> FALSE]

----------------------------------------------------------------------------
(* The application: main.py's template manager, document_analyzer's         *)
(* template manager, and the store both were loaded from                    *)

ParserIdle ==
    /\ lines = <<>> /\ pos = 1 /\ vehicles = <<>> /\ current_vehicle = <<>>
    /\ current_code_block = None /\ code_description = <<>> /\ pc = "idle"
    /\ results = <<>>

ValidatorIdle == tire_info = NoInfo /\ result = NoResult /\ lookups = <<>>

\* no save under way, no other session
StoreIdle ==
    /\ save_pc = "idle" /\ store_before = MissingFile /\ other_db = EmptyDb /\ load_bit = 0

\* main.py:13 and document_analyzer.py:11: each module constructs its own
\* PDFTemplateManager, which loads the store
Init ==
    /\ codes_file \in {MissingFile, CorruptFile, JsonFile(LearnedDb)}
    /\ writable \in BOOLEAN
    /\ template_dir \in TemplateDirs
    /\ main_db = load_codes_database(codes_file)
    /\ da_db = load_codes_database(codes_file)
    /\ stats = NoStats
    /\ last_op = NoOp
    /\ relearned = FALSE
    /\ ValidatorIdle
    /\ ParserIdle
    /\ StoreIdle

\* main.py:274-281, the "Vorlage speichern" button
Learn(pdf, name) ==
    LET r == learn_from_pdf([db |-> main_db, file |-> codes_file, stats |-> stats],
                            Pdfs[pdf], name, writable)
    IN  /\ main_db' = r.db
        /\ codes_file' = r.file
        /\ stats' = r.stats
        /\ last_op' = [kind |-> "learn", pdf |-> pdf, name |-> name, order |-> <<>>, ok |-> r.ok]
        /\ relearned' = (last_op.kind = "learn" /\ last_op.ok /\ last_op.pdf = pdf /\ last_op.name = name)
        /\ UNCHANGED <<writable, template_dir, da_db, validator_vars, parser_vars, store_vars>>

\* main.py:268-272, the "Vorlagen neu laden" button
Reload(order) ==
    LET r == reload_templates([db |-> main_db, file |-> codes_file, stats |-> stats],
                              template_dir, FileNames, order, writable)
    IN  /\ main_db' = r.db
        /\ codes_file' = r.file
        /\ stats' = r.stats
        /\ last_op' = [kind |-> "reload", pdf |-> NoPdf, name |-> "", order |-> order, ok |-> TRUE]
        /\ relearned' = FALSE
        /\ UNCHANGED <<writable, template_dir, da_db, validator_vars, parser_vars, store_vars>>

\* main.py:13 runs again whenever the script is run again
ScriptRun ==
    /\ main_db' = load_codes_database(codes_file)
    /\ last_op' = [kind |-> "run", pdf |-> NoPdf, name |-> "", order |-> <<>>, ok |-> TRUE]
    /\ relearned' = FALSE
    /\ UNCHANGED <<codes_file, stats, writable, template_dir, da_db,
                   validator_vars, parser_vars, store_vars>>

\* data_analyzer.py:26: validate_tire_combination reads
\* document_analyzer.template_manager
Validate(info) ==
    LET r == validate_tire_combination(da_db, info)
    IN  /\ tire_info' = info
        /\ result' = [f \in DOMAIN r \ {"looked_up"} |-> r[f]]
        /\ lookups' = r.looked_up
        /\ UNCHANGED <<glossary_vars, parser_vars, store_vars>>

Next ==
    \/ \E pdf \in UploadedPdfs, name \in UploadNames : Learn(pdf, name)
    \/ \E order \in ListDirOrders(Len(template_dir)) : Reload(order)
    \/ ScriptRun
    \/ \E info \in SpecInputs : Validate(info)

Spec == Init /\ [][Next]_vars

----------------------------------------------------------------------------
(* validate_tire_combination on its own, over the bounded inputs *)

ValidatorGlossaries == {EmptyDb, LearnedDb}

GlossaryIdle(db) ==
    /\ codes_file = JsonFile(db) /\ writable = TRUE /\ template_dir = <<>>
    /\ main_db = db /\ da_db = db
    /\ stats = NoStats /\ last_op = NoOp /\ relearned = FALSE

InitValidator ==
    /\ \E db \in ValidatorGlossaries : GlossaryIdle(db)
    /\ tire_info \in ValidatorInputs
    /\ result = NoResult
    /\ lookups = <<>>
    /\ ParserIdle
    /\ StoreIdle

\* the call on the chosen argument
ValidateInput == result = NoResult /\ Validate(tire_info)

NextValidator == ValidateInput

SpecValidator == InitValidator /\ [][NextValidator]_vars

----------------------------------------------------------------------------
(* analyze_vehicle_data, one line of the for loop per step *)

PriorDb ==
    [auflagen |-> <<[k |-> <<"A","1","2","a">>, v |-> <<"a","l","t">>]>>,
     hinweise |-> <<>>,
     templates |-> <<>>]

InitParser ==
    /\ ValidatorIdle
    /\ \/ GlossaryIdle(EmptyDb) /\ lines \in Documents
       \/ GlossaryIdle(PriorDb) /\ lines \in HeaderDocs
    /\ pos = 1
    /\ vehicles = <<>>
    /\ current_vehicle = <<>>
    /\ current_code_block = None
    /\ code_description = <<>>
    /\ pc = "scan"
    /\ results = <<>>
    /\ StoreIdle

\* lines 86-151, one iteration
ScanLine ==
    /\ pc = "scan"
    /\ pos <= Len(lines)
    /\ LET st == scan_line([db |-> da_db,
                            vehicles |-> vehicles,
                            current_vehicle |-> current_vehicle,
                            current_code_block |-> current_code_block,
                            code_description |-> code_description],
                           lines[pos])
       IN  /\ da_db' = st.db
           /\ vehicles' = st.vehicles
           /\ current_vehicle' = st.current_vehicle
           /\ current_code_block' = st.current_code_block
           /\ code_description' = st.code_description
    /\ pos' = pos + 1
    /\ UNCHANGED <<lines, pc, results, codes_file, writable, template_dir, main_db, stats,
                   last_op, relearned, validator_vars, store_vars>>

\* lines 153-157
Return ==
    /\ pc = "scan"
    /\ pos > Len(lines)
    /\ vehicles' = finalize(vehicles, current_vehicle)
    /\ pc' = "done"
    /\ UNCHANGED <<lines, pos, current_vehicle, current_code_block, code_description, results,
                   glossary_vars, validator_vars, store_vars>>

\* data_analyzer.py:19-35
Combine ==
    /\ pc = "done"
    /\ IF vehicles # <<>>
       THEN /\ results' = combination_records(da_db, vehicles)
            /\ pc' = "returned"
       ELSE /\ results' = <<>>
            /\ pc' = IF fallback_raises(extract_vehicle_info(lines))
                     THEN "raised" ELSE "returned"
    /\ UNCHANGED <<lines, pos, vehicles, current_vehicle, current_code_block,
                   code_description, glossary_vars, validator_vars, store_vars>>

NextParser == ScanLine \/ Return \/ Combine

SpecParser == InitParser /\ [][NextParser]_vars

----------------------------------------------------------------------------
(* The store under a save: main.py's manager learns and saves, step by      *)
(* step, while another session of main.py constructs its manager            *)

InitStore ==
    /\ codes_file \in {MissingFile, CorruptFile, JsonFile(LearnedDb), JsonFile(ForeignDb)}
    /\ writable \in BOOLEAN
    /\ template_dir = <<>>
    /\ main_db = load_codes_database(codes_file)
    /\ da_db = load_codes_database(codes_file)
    /\ stats = NoStats
    /\ last_op = NoOp
    /\ relearned = FALSE
    /\ ValidatorIdle
    /\ ParserIdle
    /\ save_pc = "idle"
    /\ store_before = codes_file
    /\ other_db = load_codes_database(codes_file)
    /\ load_bit = 0

\* pdf_template_manager.py:130-160: learn_from_pdf up to its call of
\* save_codes_database
LearnCall(pdf, name) ==
    LET r == learn_from_pdf([db |-> main_db, file |-> codes_file, stats |-> stats],
                            Pdfs[pdf], name, FALSE)
    IN  /\ save_pc = "idle"
        /\ main_db' = r.db
        /\ last_op' = [kind |-> "learn", pdf |-> pdf, name |-> name, order |-> <<>>, ok |-> r.ok]
        /\ relearned' = FALSE
        /\ save_pc' = IF r.ok THEN "open" ELSE "idle"
        /\ store_before' = IF r.ok THEN codes_file ELSE store_before
        /\ stats' = r.stats
        /\ UNCHANGED <<codes_file, writable, template_dir, da_db, other_db, load_bit,
                       validator_vars, parser_vars>>

\* line 43: open(self.codes_file, 'w')
SaveOpen ==
    /\ save_pc = "open"
    /\ codes_file' = IF writable THEN TruncatedFile ELSE codes_file
    /\ save_pc' = IF writable THEN "dump" ELSE "idle"
    /\ UNCHANGED <<writable, template_dir, main_db, da_db, stats, last_op, relearned,
                   store_before, other_db, load_bit, validator_vars, parser_vars>>

\* lines 44-45: json.dump and the end of the with block
SaveClose ==
    /\ save_pc = "dump"
    /\ codes_file' = save_codes_database(codes_file, main_db, TRUE)
    /\ save_pc' = "idle"
    /\ UNCHANGED <<writable, template_dir, main_db, da_db, stats, last_op, relearned,
                   store_before, other_db, load_bit, validator_vars, parser_vars>>

\* main.py:13 in another session: PDFTemplateManager() loads the store
OtherLoad ==
    /\ other_db' = load_codes_database(codes_file)
    /\ load_bit' = 1 - load_bit
    /\ UNCHANGED <<glossary_vars, save_pc, store_before, validator_vars, parser_vars>>

NextStore ==
    \/ \E pdf \in UploadedPdfs, name \in UploadNames : LearnCall(pdf, name)
    \/ SaveOpen
    \/ SaveClose
    \/ OtherLoad

SpecStore == InitStore /\ [][NextStore]_vars

----------------------------------------------------------------------------
(* Properties of analyze_vehicle_data (SpecParser) *)

\* C1: every vehicle record of the returned list has at least one tire
\* entry or at least one tire-combination code, whether the record was
\* closed by a following vehicle header or by the end of the input.
C1_ReturnedVehiclesHaveTireOrCode ==
    pc = "done" =>
        \A n \in 1..Len(vehicles) :
            Len(vehicles[n].reifen) > 0 \/ Len(vehicles[n].reifen_codes) > 0

\* C8: a line "<code><whitespace><description>" followed by a blank line:
\* once the blank line has been read, the restriction category of the
\* glossary maps the code to the trimmed description of that line.
C8_CodeHeaderStoredAtBlankLine ==
    \A h \in CodeHeaderParts, lead \in {<<>>, <<" ">>}, trail \in {<<>>, <<" ">>} :
        \A k \in 1..(Len(lines) - 1) :
            (/\ pc = "scan"
             /\ pos = k + 2
             /\ lines[k] = lead \o RenderHeader(h) \o trail
             /\ lines[k + 1] \in BlankLines)
            => /\ h.code \in DictKeys(da_db.auflagen)
               /\ DictGet(da_db.auflagen, h.code) = h.desc

\* C8, reached: the header "A12a Kotfl" and a blank line have been read and
\* the description learned earlier for A12a has been replaced.
C8_Witness ==
    /\ pc = "scan"
    /\ pos = 3
    /\ codes_file = JsonFile(PriorDb)
    /\ lines[1] = <<" ">> \o RenderHeader([code |-> <<"A","1","2","a">>, ws |-> <<" ">>,
                                            desc |-> <<"K","o","t","f","l">>])
    /\ lines[2] = <<" ">>
    /\ DictGet(da_db.auflagen, <<"A","1","2","a">>) = <<"K","o","t","f","l">>

\* C9: a vehicle header line followed by a line with one tire size and a
\* trailing restriction code gives exactly one vehicle record, named
\* "Audi <model>", with exactly one tire entry; its size is
\* WIDTH/ASPECTRDIAMETER and its restriction codes contain the code (written
\* without the hyphen when the line has the hyphenated form).
C9_HeaderAndTireLine ==
    \A m \in Models, t \in TireParts, trail \in {<<>>, <<" ">>} :
        (pc = "done" /\ lines = <<RenderVehicle(m) \o trail, RenderTire(t)>>)
        => /\ Len(vehicles) = 1
           /\ vehicles[1].fahrzeug = <<"A","u","d","i"," ">> \o m
           /\ Len(vehicles[1].reifen) = 1
           /\ vehicles[1].reifen[1].groesse = t.w \o <<"/">> \o t.a \o <<"R">> \o t.d
           /\ Remove(t.code, "-") \in Range(vehicles[1].reifen[1].codes.auflagen)

\* C9, reached: "Audi A4 B8" / "235-45ZR18 A-12" has been analysed.
C9_Witness ==
    /\ pc = "done"
    /\ lines = << <<"A","u","d","i"," ","A","4"," ","B","8">>,
                  <<"2","3","5","-","4","5","Z","R","1","8"," ","A","-","1","2">> >>
    /\ Len(vehicles) = 1
    /\ vehicles[1].reifen[1].groesse = <<"2","3","5","/","4","5","R","1","8">>
    /\ vehicles[1].reifen[1].codes.auflagen = <<cA12>>

----------------------------------------------------------------------------
(* Properties of validate_tire_combination (SpecValidator) *)

\* C2: for a size that parses into (width, aspect, diameter) the status is
\* "Prüfung erforderlich" when a dimension is out of range, even with
\* restriction codes attached; otherwise "Zulässig mit Auflagen" when the
\* entry carries a restriction code; otherwise "Zulässig ohne Eintragung",
\* and then the list of warnings is empty.
C2_StatusPriority ==
    \A w \in Widths, a \in Aspects, d \in Diameters :
        (result.status # "none" /\ tire_info.groesse = SizeString(w, a, d))
        => LET in_range == /\ 155 <= w /\ w <= 335
                           /\ 25 <= a /\ a <= 80
                           /\ 16 <= d /\ d <= 22
               restricted == tire_info.codes.auflagen # <<>>
           IN  /\ ~in_range => result.status = "Prüfung erforderlich"
               /\ in_range /\ restricted => result.status = "Zulässig mit Auflagen"
               /\ in_range /\ ~restricted =>
                      result.status = "Zulässig ohne Eintragung" /\ result.hinweise = <<>>
               /\ (result.hinweise # <<>>) <=> (result.status = "Prüfung erforderlich")

\* C2, reached: a size with a dimension out of range and restriction codes
\* attached has been given "Prüfung erforderlich".
C2_Witness ==
    /\ tire_info.groesse = SizeString(336, 45, 18)
    /\ tire_info.codes.auflagen = <<cA12, cA99>>
    /\ result.status = ReviewRequired

\* C3: the list of warnings holds the width warning exactly when the width
\* is outside [155,335], the aspect-ratio warning exactly when the aspect
\* ratio is outside [25,80], the rim-diameter warning exactly when the
\* diameter is outside [16,22]; a width below 155 gives the width warning
\* and "Prüfung erforderlich" whatever else the entry holds.
C3_WarningPerDimension ==
    \A w \in Widths, a \in Aspects, d \in Diameters :
        (result.status # "none" /\ tire_info.groesse = SizeString(w, a, d))
        => /\ ("Ungewöhnliche Reifenbreite" \in Range(result.hinweise))
                  <=> (w < 155 \/ w > 335)
           /\ ("Ungewöhnliches Höhen-Breiten-Verhältnis" \in Range(result.hinweise))
                  <=> (a < 25 \/ a > 80)
           /\ ("Ungewöhnlicher Felgendurchmesser" \in Range(result.hinweise))
                  <=> (d < 16 \/ d > 22)
           /\ Len(result.hinweise) = Cardinality(Range(result.hinweise))
           /\ w < 155 => result.status = "Prüfung erforderlich"

\* C3, reached: all three dimensions are out of range, the width below 155,
\* and the three warnings stand together.
C3_Witness ==
    /\ tire_info.groesse = SizeString(154, 81, 15)
    /\ tire_info.codes.auflagen # <<>>
    /\ result.status = ReviewRequired
    /\ result.hinweise = <<UnusualWidth, UnusualAspect, UnusualDiameter>>

----------------------------------------------------------------------------
(* Properties of the glossary as the application uses it (Spec) *)

\* C5: once learn_from_pdf has returned True and stored description d for a
\* code c, a validation that follows in the same process of a tire entry
\* carrying c emits "c: d" in the list of restrictions or of notes.  (The
\* case taken is the one where the learned glossary has reached the store.)
C5_ValidatorReadsWhatLearnerWrote ==
    [][(/\ last_op.kind = "learn"
        /\ last_op.ok
        /\ codes_file = JsonFile(main_db)
        /\ result.status = "none"
        /\ result'.status # "none")
       => LET learned == NewCodes[Pdfs[last_op.pdf].text]
              carried == tire_info'.codes
          IN  /\ \A n \in 1..Len(carried.auflagen) :
                    carried.auflagen[n] \in DictKeys(learned.auflagen)
                    => result'.auflagen[n] =
                           carried.auflagen[n] \o <<":", " ">>
                               \o DictGet(learned.auflagen, carried.auflagen[n])
              /\ \A n \in 1..Len(carried.hinweise) :
                    carried.hinweise[n] \in DictKeys(learned.hinweise)
                    => result'.technische_hinweise[n] =
                           carried.hinweise[n] \o <<":", " ">>
                               \o DictGet(learned.hinweise, carried.hinweise[n])]_vars

\* C6: for every code of a restriction or note shape and every description
\* d, storing (classify_code(code), code, d) by the update step of
\* learn_from_pdf and then calling get_code_description(code) gives d: from
\* every glossary the manager reaches, and for every pair a successful
\* learn_from_pdf has just stored.
C6_RoundTrip ==
    /\ \A code \in {cA12, cA99, <<"A","G","b">>, cB12, <<"S","0","1">>, <<"F","0","7">>,
                    cCar, <<"N","o","E">>} :
          \A d \in {<<"x","y">>, <<"x","y"," ","z","u">>, <<"A","z">>} :
              /\ classify_code(code) \in {"auflagen", "hinweise"}
              /\ get_code_description(
                     upsert([db |-> main_db, new |-> 0, updated |-> 0],
                            classify_code(code), code, d).db,
                     code) = d
    /\ (last_op.kind = "learn" /\ last_op.ok)
       => \A category \in {"auflagen", "hinweise"} :
              LET learned == NewCodes[Pdfs[last_op.pdf].text][category]
              IN  \A n \in 1..Len(learned) :
                      get_code_description(main_db, learned[n].k) = learned[n].v

\* C6, reached: learning has replaced the description the glossary held for
\* A12, and get_code_description gives the new one.
C6_Witness ==
    /\ last_op.kind = "learn"
    /\ last_op.ok
    /\ last_op.pdf = "ref1"
    /\ stats.updated = 1
    /\ get_code_description(main_db, cA12) = <<"x","y"," ","z","u">>
    /\ get_code_description(main_db, cB12) = <<"n","o">>

\* C7: learning the same reference text a second time right after the first
\* leaves the glossary in memory and the persisted store as they were, and
\* counts no entry as new or updated; storing a learned triple once more
\* changes nothing either.
C7_SecondLearnChangesNothing ==
    [][(/\ last_op.kind = "learn"
        /\ last_op.ok
        /\ ~relearned
        /\ relearned')
       => /\ main_db' = main_db
          /\ codes_file' = codes_file
          /\ stats' = [new |-> 0, updated |-> 0]
          /\ \A category \in {"auflagen", "hinweise"} :
                 LET learned == NewCodes[Pdfs[last_op.pdf].text][category]
                 IN  \A n \in 1..Len(learned) :
                         upsert([db |-> main_db', new |-> 0, updated |-> 0],
                                category, learned[n].k, learned[n].v)
                             = [db |-> main_db', new |-> 0, updated |-> 0]]_vars

\* C7, reached: a reference text with codes has been learned twice in a row
\* and the store holds the glossary.
C7_Witness ==
    /\ last_op.kind = "learn"
    /\ last_op.ok
    /\ last_op.pdf = "ref1"
    /\ relearned
    /\ stats = NoStats
    /\ codes_file = JsonFile(main_db)
    /\ DictKeys(main_db.auflagen) = {cA12}

\* C10: after reload_templates the glossary is what learning every stored
\* document that can be processed, in the order of the listing and from an
\* empty glossary, gives: the learned templates are the names of those
\* documents, each category holds exactly their codes, each code with the
\* description of the last of them that defines it; nothing of the glossary
\* before the reload is left, and a document that fails is passed over.
C10_ReloadRebuildsGlossary ==
    last_op.kind = "reload" =>
        LET order == last_op.order
            good == {i \in 1..Len(order) :
                        /\ Pdfs[template_dir[order[i]]].kind = "text"
                        /\ Pdfs[template_dir[order[i]]].text # EmptyText}
            codes == [i \in good |-> NewCodes[Pdfs[template_dir[order[i]]].text]]
        IN  /\ Len(order) = Len(template_dir)
            /\ Range(main_db.templates) = {FileNames[order[i]] : i \in good}
            /\ Len(main_db.templates) = Cardinality(good)
            /\ \A i, j \in good :
                   i < j => \E a, b \in 1..Len(main_db.templates) :
                                /\ a < b
                                /\ main_db.templates[a] = FileNames[order[i]]
                                /\ main_db.templates[b] = FileNames[order[j]]
            /\ \A category \in {"auflagen", "hinweise"} :
                   /\ DictKeys(main_db[category])
                          = UNION {DictKeys(codes[i][category]) : i \in good}
                   /\ Len(main_db[category]) = Cardinality(DictKeys(main_db[category]))
                   /\ \A i \in good :
                          \A c \in DictKeys(codes[i][category]) :
                              (\A j \in good : j > i => c \notin DictKeys(codes[j][category]))
                              => DictGet(main_db[category], c) = DictGet(codes[i][category], c)

\* C10, reached: templates/ holds a file that cannot be opened and, after it
\* in the listing, a reference document; the reload has learned the second
\* and dropped what the glossary held before.
C10_Witness ==
    /\ last_op.kind = "reload"
    /\ Len(template_dir) = 2
    /\ Pdfs[template_dir[last_op.order[1]]].kind = "noaccess"
    /\ template_dir[last_op.order[2]] = "ref2"
    /\ main_db.templates = <<FileNames[last_op.order[2]]>>
    /\ DictGet(main_db.auflagen, cA12) = <<"A","z">>
    /\ main_db.hinweise = <<[k |-> cCar, v |-> <<"c","c">>]>>

\* C11: after every successful learn_from_pdf and after every
\* reload_templates, whenever the store can be written, the store holds the
\* glossary the manager has in memory -- also when the reload found no
\* document or every document failed.
C11_StoreFollowsGlossary ==
    (/\ writable
     /\ \/ last_op.kind = "learn" /\ last_op.ok
        \/ last_op.kind = "reload")
    => codes_file = JsonFile(main_db)

\* C21: when reload_templates is called after a learn_from_pdf that returned
\* True, the template name of that call is still among the learned templates
\* after the reload, and every code learned from that document is still in
\* the glossary with its description.
C21_LearnedSurvivesReload ==
    [][(last_op.kind = "learn" /\ last_op.ok /\ last_op'.kind = "reload")
        => /\ last_op.name \in Range(main_db'.templates)
           /\ \A category \in {"auflagen", "hinweise"} :
                  LET learned == NewCodes[Pdfs[last_op.pdf].text][category]
                  IN  \A n \in 1..Len(learned) :
                          DictGet(main_db'[category], learned[n].k) = learned[n].v]_vars

----------------------------------------------------------------------------
(* Properties of the store under concurrent sessions (SpecStore) *)

\* C12: a session that loads the store while another session's
\* save_codes_database is between its open and its close obtains the complete
\* glossary the store held before that save or the complete glossary being
\* saved, never an empty or partial one.
C12_ReaderSeesOldOrNew ==
    [][(load_bit' # load_bit /\ save_pc = "dump")
        => other_db' \in {load_codes_database(store_before), main_db}]_vars

\* C13: after every load of the store -- missing, unreadable or of any other
\* content -- the manager's glossary has the three keys 'auflagen',
\* 'hinweise' and 'templates'.
C13_ThreeKeysAfterLoad ==
    /\ save_pc = "idle" => DOMAIN main_db = {"auflagen", "hinweise", "templates"}
    /\ DOMAIN other_db = {"auflagen", "hinweise", "templates"}

----------------------------------------------------------------------------
(* Properties of the parser's glossary writes and of its branches           *)
(* (SpecParser)                                                             *)

\* the line ScanLine is about to read, stripped
CurrentLine == Strip(lines[pos])

\* ScanLine is enabled and a vehicle is open
ScanningVehicle == pc = "scan" /\ pos <= Len(lines) /\ current_vehicle # <<>>

\* C14: starting from an empty glossary, every key of the restrictions
\* mapping classifies as 'auflagen', every key of the notes mapping
\* classifies as 'hinweise', and so no unclassified code is stored.
C14_CodesSitInTheirCategory ==
    codes_file = JsonFile(EmptyDb) =>
        /\ \A k \in DictKeys(da_db.auflagen) : classify_code(k) = "auflagen"
        /\ \A k \in DictKeys(da_db.hinweise) : classify_code(k) = "hinweise"

\* C15: analyze_vehicle_tire_combination never raises, whatever the
\* document, also when the vehicles come from extract_vehicle_info.
C15_CombinationNeverRaises == pc # "raised"

\* C16: when analyze_vehicle_data has returned, a code block that was still
\* pending at the end of the input is in the glossary with its joined
\* description.
C16_PendingBlockFlushedAtEnd ==
    (pc = "done" /\ current_code_block # None /\ code_description # <<>>)
        => DictGet(da_db.auflagen, current_code_block) = Join(code_description)

\* C17: a code-header line read while a vehicle is open opens the code block
\* and is scanned by the later branches too: its tire sizes become tire
\* entries of the open vehicle, and a vehicle header in it opens the vehicle.
C17_CodeHeaderFallsThrough ==
    [][(ScanningVehicle /\ code_match(CurrentLine).ok /\ ~t_code_search(CurrentLine).ok)
        => /\ current_code_block' = code_match(CurrentLine).code
           /\ IF audi_search(CurrentLine).ok
              THEN current_vehicle' = <<new_vehicle(audi_search(CurrentLine).rest)>>
              ELSE current_vehicle'[1].reifen =
                       current_vehicle[1].reifen \o tire_entries(CurrentLine)]_vars

\* C18: a line with the tire-combination sentence read while a vehicle is
\* open, the T-code first on the line or not, appends [code, trimmed rest]
\* to the vehicle's reifen_codes; a vehicle with such a code and no tire
\* entry is in the returned list.
C18_TCodeSentenceRecorded ==
    [][/\ (ScanningVehicle /\ t_code_search(CurrentLine).ok)
          => current_vehicle'[1].reifen_codes =
                 Append(current_vehicle[1].reifen_codes,
                        [code |-> t_code_search(CurrentLine).code,
                         beschreibung |-> Strip(t_code_search(CurrentLine).rest)])
       /\ (pc = "scan" /\ pc' = "done" /\ current_vehicle # <<>>
               /\ Len(current_vehicle[1].reifen_codes) > 0)
          => vehicles' = Append(vehicles, current_vehicle[1])]_vars

\* C19: within one open vehicle an attribute keeps the value of the first
\* line that set it: a later line of the same vehicle changes no attribute
\* that is already recorded.
C19_FirstAttributeValueKept ==
    [][(ScanningVehicle /\ ~audi_search(CurrentLine).ok)
        => \A key \in DictKeys(current_vehicle[1].kennzeichnungen) :
               DictGet(current_vehicle'[1].kennzeichnungen, key)
                   = DictGet(current_vehicle[1].kennzeichnungen, key)]_vars

\* C20: a line of an open vehicle that is no header and holds a type token
\* ('B8', 'B8, B81') extends the vehicle's name by a space and the token.
C20_TypeTokenExtendsName ==
    [][(/\ ScanningVehicle /\ CurrentLine # <<>>
        /\ ~code_match(CurrentLine).ok /\ ~t_code_search(CurrentLine).ok
        /\ ~audi_search(CurrentLine).ok /\ type_search(CurrentLine).ok)
        => current_vehicle'[1].fahrzeug =
               current_vehicle[1].fahrzeug \o <<" ">> \o type_search(CurrentLine).rest]_vars

\* the line that opened the pending code block: the last code header
\* before the line ScanLine is about to read
PendingHeader ==
    CHOOSE h \in 1..(pos - 1) :
        /\ code_match(Strip(lines[h])).ok
        /\ \A i \in (h + 1)..(pos - 1) : ~code_match(Strip(lines[i])).ok

\* the description of the pending block's header and the lines read since,
\* stripped, in order
PendingParts ==
    <<code_match(Strip(lines[PendingHeader])).rest>>
        \o [i \in 1..(pos - 1 - PendingHeader) |-> Strip(lines[PendingHeader + i])]

\* C22: while a code block is pending, a non-blank line that is no code
\* header joins the pending description and is processed as vehicle data in
\* the same step (vehicle header, tire sizes, attributes); a blank line or
\* the next code header stores, for the pending code, the header's
\* description followed by all those lines, in order, joined by single
\* spaces.
C22_PendingLinesJoinDescription ==
    [][(pc = "scan" /\ pos <= Len(lines) /\ current_code_block # None)
        => IF CurrentLine = <<>> \/ code_match(CurrentLine).ok
           THEN DictGet(da_db'.auflagen, current_code_block) = Join(PendingParts)
           ELSE /\ code_description' = Append(code_description, CurrentLine)
                /\ current_code_block' = current_code_block
                /\ da_db' = da_db
                /\ IF t_code_search(CurrentLine).ok THEN TRUE
                   ELSE IF audi_search(CurrentLine).ok
                   THEN /\ current_vehicle' = <<new_vehicle(audi_search(CurrentLine).rest)>>
                        /\ vehicles' = IF current_vehicle # <<>>
                                       THEN Append(vehicles, current_vehicle[1])
                                       ELSE vehicles
                   ELSE IF current_vehicle # <<>>
                   THEN /\ current_vehicle'[1].reifen =
                               current_vehicle[1].reifen \o tire_entries(CurrentLine)
                        /\ current_vehicle'[1].kennzeichnungen =
                               set_attributes(current_vehicle[1].kennzeichnungen, CurrentLine, 1)
                   ELSE current_vehicle' = current_vehicle]_vars

\* C22, reached: with the vehicle Audi A4 open, the header "A12a Kotfl", a
\* tire line and a manufacturer line have been read and a blank line has
\* stored the three of them, joined, for A12a; the vehicle has the tire
\* entry and the attribute.
C22_Witness ==
    /\ pc = "scan"
    /\ pos = 6
    /\ codes_file = JsonFile(EmptyDb)
    /\ lines[2] = <<"A","1","2","a"," ","K","o","t","f","l">>
    /\ lines[3] = <<"2","3","5","/","4","5","R","1","8"," ","A","1","2"," ">>
    /\ lines[4] = <<"H","e","r","s","t","e","l","l","e","r",":"," ","A","B">>
    /\ Strip(lines[5]) = <<>>
    /\ current_code_block = None
    /\ DictGet(da_db.auflagen, <<"A","1","2","a">>) =
           <<"K","o","t","f","l"," ","2","3","5","/","4","5","R","1","8"," ","A","1","2"," ",
             "H","e","r","s","t","e","l","l","e","r",":"," ","A","B">>
    /\ Len(current_vehicle[1].reifen) = 1
    /\ DictGet(current_vehicle[1].kennzeichnungen, "manufacturer") = <<"A","B">>

====
